---- MODULE Spec2Model ----
(***************************************************************************)
(* Model of src/main.py: the Amazon search scraper's crawl pipeline.       *)
(*                                                                         *)
(* main() walks the keyword list and calls _scrape_keyword once per        *)
(* keyword; _scrape_keyword loops over search-result pages: open a page,   *)
(* navigate with retries, check for a bot-protection page, query and parse *)
(* the cards, optionally enrich the first items from their detail pages,   *)
(* push the items to the dataset, follow the next-page link.               *)
(*                                                                         *)
(* The program is one cooperative flow, so one program counter `pc` holds  *)
(* its position.  Every awaited browser or dataset call is a step whose    *)
(* outcome (a value, or an exception) the environment chooses.             *)
(*                                                                         *)
(* A page scope counts as open from the moment new_page() returned until   *)
(* close() has been called on it, whether close() returns or raises.       *)
(*                                                                         *)
(* Spec is the crawl.  SpecNormalize applies _normalize_input to raw       *)
(* inputs, and SpecCard runs _parse_single_card on one card, step by step, *)
(* followed by the append of _extract_product_cards.                       *)
(***************************************************************************)
EXTENDS Integers, Sequences, FiniteSets, TLC

\* ------------------------------------------------------------------ bounds
NumKeywords == 2      \* length of the keyword list
MaxItemsBound == 2    \* largest max_items_per_keyword explored
MaxPagesBound == 2    \* largest max_pages explored
MaxDetailBound == 2   \* largest max_detail_items explored
MaxCards == 2         \* most cards one result page holds

\* ------------------------------------------------------- program constants
max_nav_retries == 3

captcha_markers ==
    { "api-services-support@amazon.com",
      "to discuss automated access to amazon data",
      "/captcha/",
      "enter the characters you see below" }

\* ------------------------------------------------------------ environment
\* The keyword list main() iterates over (distinct, non-empty strings).
Keywords == [i \in 1..NumKeywords |-> IF i = 1 THEN "kw1" ELSE
                                      IF i = 2 THEN "kw2" ELSE
                                      IF i = 3 THEN "kw3" ELSE "kw4"]

\* Text fragments a rendered page is made of, and str.lower() on each.
Fragments ==
    { "<div class=s-main-slot>", "/captcha/", "/CAPTCHA/", "captcha",
      "Enter the characters you see below" }

Lower(s) ==
    CASE s = "/CAPTCHA/" -> "/captcha/"
      [] s = "Enter the characters you see below"
             -> "enter the characters you see below"
      [] s = "Sponsored" -> "sponsored"
      [] OTHER -> s

\* A page's content: one or two fragments.
HtmlSamples ==
    { <<f>> : f \in Fragments } \cup
    { <<"<div class=s-main-slot>", f>> : f \in Fragments }

\* any(marker in html_lower for marker in captcha_markers)
LooksLikeCaptcha(html) ==
    \E marker \in captcha_markers :
        \E i \in 1..Len(html) : Lower(html[i]) = marker

Min(a, b) == IF a <= b THEN a ELSE b

RECURSIVE SumCards(_, _)
SumCards(s, n) == IF n = 0 THEN 0 ELSE s[n] + SumCards(s, n - 1)

\* ------------------------------------------------------------------ state
VARIABLES
    pc,               \* position in main() / _scrape_keyword
    kwIdx,            \* index of the keyword main()'s for loop is at
    max_items, max_pages, fetch_details, max_detail_items,  \* parsed input
    total_collected, page_index, search_url,   \* _scrape_keyword locals
    attempt,          \* navigation attempt of the retry loop
    botChecks,        \* bot checks run on the current search page
    cards, ci,        \* the page's card list and the extraction loop index
    items,            \* records extracted from the current page
    detail_count, di, \* enrichment loop: successes so far, loop index
    detail_page,      \* the local detail_page: "unbound", "open", "closed"
    pi,               \* push loop index
    after,            \* where the per-page finally block leads
    openSearch, openDetail,   \* page scopes currently open
    contextOpen,      \* the shared browser context
    sink,             \* records the dataset accepted from the current
                      \* keyword's crawl, in order
    site,             \* pages the current keyword's search serves
    started,          \* keywords whose crawl was started, in order
    pagesOpened,      \* search pages opened for the current keyword
    botAt,            \* page_index at which the bot check matched, or 0
    clean,            \* no failure, discard or missing next link so far
    enrichLog,        \* enrichment on the current page so far: "nominal",
                      \* "gap" (a record without URL or detail data), or
                      \* "failed" (a detail-page call raised)
    raw_input, parsed_input,   \* _normalize_input: argument and outcome
    ppc,              \* position in _parse_single_card
    min_rating, min_reviews, exclude_sponsored,   \* its filter arguments
    asin, price_text, price, currency, rating_value, reviews_count,
    badge_texts, badges, is_sponsored,            \* its locals
    result            \* what _parse_single_card returned

normalizing == << raw_input, parsed_input >>
parsing == << ppc, min_rating, min_reviews, exclude_sponsored, asin,
              price_text, price, currency, rating_value, reviews_count,
              badge_texts, badges, is_sponsored, result >>
functions == << normalizing, parsing >>

vars == << pc, kwIdx, max_items, max_pages, fetch_details, max_detail_items,
           total_collected, page_index, search_url, attempt, botChecks, cards,
           ci, items, detail_count, di, detail_page, pi, after, openSearch,
           openDetail, contextOpen, sink, site, started, pagesOpened,
           botAt, clean, enrichLog, functions >>

params == << max_items, max_pages, fetch_details, max_detail_items >>
locals == << total_collected, page_index, search_url >>
navLoop == << attempt, botChecks >>
extraction == << cards, ci, items >>
enrichment == << detail_count, di, detail_page >>
scopes == << openSearch, openDetail, contextOpen >>
history == << site, started, pagesOpened, botAt, clean,
              enrichLog >>

\* site[p] is the number of cards on result page p of the current keyword's
\* search, NotServed until the crawl queries the page.  When the crawl
\* returns, the pages it never requested hold whatever the site holds (the
\* pages past max_pages stand as 0): Unrequested(s) is every such completion.
NotServed == 0 - 1

Unrequested(s) ==
    { t \in [1..MaxPagesBound -> 0..MaxCards] :
        \A p \in 1..MaxPagesBound :
            /\ s[p] # NotServed => t[p] = s[p]
            /\ (s[p] = NotServed /\ p > max_pages) => t[p] = 0 }

\* A record of the page's items list: the card it came from and whether an
\* enrichment field (categoryPath or featureBullets) has been attached to
\* it.  Its other fields are read at most once and drawn where they are read.
Item(c) == [card |-> c, enriched |-> FALSE]

\* The record stamped with the index of the page after the current one.
OutRecordNextPage(kw, p, item) ==
    [keyword |-> kw, pageIndex |-> p + 1, card |-> item.card,
     enriched |-> item.enriched]

\* The record _scrape_keyword hands to Actor.push_data.
OutRecord(kw, p, item) ==
    [keyword |-> kw, pageIndex |-> p, card |-> item.card,
     enriched |-> item.enriched]

\* ------------------------------------------------------- Python values
\* A value of the Actor input or of a card's markup: its type, and its
\* number (an int's value, a float's value in tenths, a list's length) or
\* its text.
V(kind, n, s) == [kind |-> kind, n |-> n, s |-> s]
Missing == V("missing", 0, "")       \* the key is not in the dict
NoneV == V("None", 0, "")
IntV(n) == V("int", n, "")
FloatV(tenths) == V("float", tenths, "")
StrV(s) == V("str", 0, s)
BoolV(b) == V("bool", IF b THEN 1 ELSE 0, "")
ListV(len) == V("list", len, "")
Raise(exc) == V("raise", 0, exc)

\* Outside a call of _normalize_input or _parse_single_card its variables
\* hold nothing.
NormalizeIdle ==
    /\ raw_input = Missing
    /\ parsed_input = Missing

ParseIdle ==
    /\ ppc = "idle"
    /\ min_rating = NoneV
    /\ min_reviews = NoneV
    /\ exclude_sponsored = FALSE
    /\ asin = NoneV
    /\ price_text = << >>
    /\ price = NoneV
    /\ currency = << >>
    /\ rating_value = NoneV
    /\ reviews_count = NoneV
    /\ badge_texts = << >>
    /\ badges = << >>
    /\ is_sponsored = FALSE
    /\ result = Missing

\* The crawl's variables as main() finds them.
CrawlStart ==
    /\ pc = "main_for"
    /\ kwIdx = 1
    /\ total_collected = 0
    /\ page_index = 1
    /\ search_url = 1
    /\ attempt = 1
    /\ botChecks = 0
    /\ cards = << >>
    /\ ci = 1
    /\ items = << >>
    /\ detail_count = 0
    /\ di = 1
    /\ detail_page = "unbound"
    /\ pi = 1
    /\ after = "exit"
    /\ openSearch = 0
    /\ openDetail = 0
    /\ contextOpen = TRUE
    /\ sink = << >>
    /\ site = [p \in 1..MaxPagesBound |-> NotServed]
    /\ started = << >>
    /\ pagesOpened = 0
    /\ botAt = 0
    /\ clean = TRUE
    /\ enrichLog = "nominal"

Init ==
    /\ max_items \in 1..MaxItemsBound
    /\ max_pages \in 1..MaxPagesBound
    /\ fetch_details \in BOOLEAN
    /\ max_detail_items \in 1..MaxDetailBound
    /\ CrawlStart
    /\ NormalizeIdle
    /\ ParseIdle

\* ---------------------------------------------------------------- main()
\* for keyword in parsed_input.keywords: await _scrape_keyword(...), whose
\* first statements set total_collected = 0, page_index = 1 and search_url.
StartKeyword ==
    /\ pc = "main_for"
    /\ kwIdx <= NumKeywords
    /\ started' = Append(started, kwIdx)
    /\ total_collected' = 0
    /\ page_index' = 1
    /\ search_url' = 1
    /\ detail_page' = "unbound"
    /\ site' = [p \in 1..MaxPagesBound |-> NotServed]
    /\ pagesOpened' = 0
    /\ botAt' = 0
    /\ clean' = TRUE
    /\ enrichLog' = "nominal"
    /\ sink' = << >>
    /\ pc' = "while"
    /\ UNCHANGED << kwIdx, params, navLoop, extraction, detail_count, di, pi,
                    after, scopes >>
    /\ UNCHANGED functions

\* The for loop is exhausted: control reaches the finally block.
KeywordsDone ==
    /\ pc = "main_for"
    /\ kwIdx > NumKeywords
    /\ pc' = "main_finally"
    /\ UNCHANGED << kwIdx, params, locals, navLoop, extraction, enrichment,
                    pi, after, scopes, sink, history >>
    /\ UNCHANGED functions

\* finally: await context.close(); await browser.close().  The run ends
\* normally, or with the exception that was propagating.
MainFinally ==
    /\ pc \in {"main_finally", "main_raise"}
    /\ contextOpen' = FALSE
    /\ openSearch' = 0
    /\ openDetail' = 0
    /\ pc' = IF pc = "main_raise" THEN "aborted" ELSE "done"
    /\ UNCHANGED << kwIdx, params, locals, navLoop, extraction, enrichment,
                    pi, after, sink, history >>
    /\ UNCHANGED functions

\* ------------------------------------------------------- _scrape_keyword
\* while total_collected < max_items and page_index <= max_pages
LoopCondOffByOne(tc, p) == tc < max_items /\ p <= max_pages + 1
LoopCondNoPageTest(tc, p) == tc < max_items
LoopCond(tc, p) == tc < max_items /\ p <= max_pages

WhileTest ==
    /\ pc = "while"
    /\ IF LoopCond(total_collected, page_index)
         THEN pc' = "new_page" /\ site' = site
         ELSE pc' = "return" /\ site' \in Unrequested(site)
    /\ UNCHANGED << kwIdx, params, locals, navLoop, extraction, enrichment,
                    pi, after, scopes, sink, started, pagesOpened, botAt,
                    clean, enrichLog >>
    /\ UNCHANGED functions

\* _scrape_keyword returns: its locals are gone, and so is what was
\* recorded about this keyword's crawl; the for loop takes the next keyword.
Return ==
    /\ pc = "return"
    /\ kwIdx' = kwIdx + 1
    /\ total_collected' = 0
    /\ page_index' = 1
    /\ search_url' = 1
    /\ detail_page' = "unbound"
    /\ site' = [p \in 1..MaxPagesBound |-> NotServed]
    /\ pagesOpened' = 0
    /\ botAt' = 0
    /\ clean' = TRUE
    /\ sink' = << >>
    /\ pc' = "main_for"
    /\ UNCHANGED << params, navLoop, extraction, detail_count, di, pi,
                    after, scopes, started, enrichLog >>
    /\ UNCHANGED functions

\* page = await context.new_page()  -- before the try statement.
NewPageOk ==
    /\ pc = "new_page"
    /\ openSearch' = openSearch + 1
    /\ pagesOpened' = pagesOpened + 1
    /\ attempt' = 1
    /\ botChecks' = 0
    /\ pc' = "goto"
    /\ UNCHANGED << kwIdx, params, locals, extraction, enrichment, pi, after,
                    openDetail, contextOpen, sink, site, started, botAt,
                    clean, enrichLog >>
    /\ UNCHANGED functions

\* new_page() raises: no handler encloses it, the exception leaves
\* _scrape_keyword and main()'s for loop.
NewPageFail ==
    /\ pc = "new_page"
    /\ clean' = FALSE
    /\ pc' = "main_raise"
    /\ UNCHANGED << kwIdx, params, locals, navLoop, extraction, enrichment,
                    pi, after, scopes, sink, site, started, pagesOpened,
                    botAt, enrichLog >>
    /\ UNCHANGED functions

\* await page.goto(search_url, ...) returns.
GotoOk ==
    /\ pc = "goto"
    /\ pc' = "settle"
    /\ UNCHANGED << kwIdx, params, locals, navLoop, extraction, enrichment,
                    pi, after, scopes, sink, site, started, pagesOpened,
                    botAt, clean, enrichLog >>
    /\ UNCHANGED functions

\* The timeout handler without `if attempt == max_nav_retries: raise`: the
\* for loop runs out after the last attempt and the page is read as if loaded.
GotoTimeoutNoRaise ==
    /\ pc = "goto"
    /\ clean' = FALSE
    /\ pc' = IF attempt = max_nav_retries THEN "content" ELSE "backoff"
    /\ UNCHANGED << kwIdx, params, locals, navLoop, extraction, enrichment,
                    pi, after, scopes, sink, site, started, pagesOpened,
                    botAt, enrichLog >>
    /\ UNCHANGED functions

\* page.goto raises PlaywrightTimeoutError: the last attempt re-raises into
\* the per-page handler, an earlier one goes on to the backoff sleep.
GotoTimeout ==
    /\ pc = "goto"
    /\ clean' = FALSE
    /\ IF attempt = max_nav_retries
         THEN pc' = "finally" /\ after' = "exit"
         ELSE pc' = "backoff" /\ after' = after
    /\ UNCHANGED << kwIdx, params, locals, navLoop, extraction, enrichment,
                    pi, scopes, sink, site, started, pagesOpened,
                    botAt, enrichLog >>
    /\ UNCHANGED functions

\* page.goto raises something that is no timeout: per-page handler, break.
GotoError ==
    /\ pc = "goto"
    /\ clean' = FALSE
    /\ pc' = "finally"
    /\ after' = "exit"
    /\ UNCHANGED << kwIdx, params, locals, navLoop, extraction, enrichment,
                    pi, scopes, sink, site, started, pagesOpened,
                    botAt, enrichLog >>
    /\ UNCHANGED functions

\* await page.wait_for_timeout(sleep_ms), then the next attempt.
Backoff ==
    /\ pc = "backoff"
    /\ attempt' = attempt + 1
    /\ botChecks' = botChecks
    /\ pc' = "goto"
    /\ UNCHANGED << kwIdx, params, locals, extraction, enrichment, pi, after,
                    scopes, sink, history >>
    /\ UNCHANGED functions

\* The settle wait followed by the card query, the bot check left out.
SettleSkipsCheck ==
    /\ pc = "settle"
    /\ pc' = "cards"
    /\ UNCHANGED << kwIdx, params, locals, navLoop, extraction, enrichment,
                    pi, after, scopes, sink, history >>
    /\ UNCHANGED functions

\* await page.wait_for_timeout(2_000); break out of the retry loop.
Settle ==
    /\ pc = "settle"
    /\ pc' = "content"
    /\ UNCHANGED << kwIdx, params, locals, navLoop, extraction, enrichment,
                    pi, after, scopes, sink, history >>
    /\ UNCHANGED functions

\* The bot check with its break left out: the warning is logged and the
\* page is parsed like any other.
ReadContentNoBreak ==
    /\ pc = "content"
    /\ botChecks' = botChecks + 1
    /\ \E html \in HtmlSamples :
         /\ botAt' = IF LooksLikeCaptcha(html) THEN page_index ELSE botAt
         /\ clean' = (clean /\ ~LooksLikeCaptcha(html))
    /\ pc' = "cards"
    /\ UNCHANGED << kwIdx, params, locals, attempt, extraction, enrichment,
                    pi, after, scopes, sink, site, started, pagesOpened,
                    enrichLog >>
    /\ UNCHANGED functions

\* html_lower = (await page.content()).lower(); a marker in it breaks out.
ReadContent ==
    /\ pc = "content"
    /\ botChecks' = botChecks + 1
    /\ \E html \in HtmlSamples :
         IF LooksLikeCaptcha(html)
           THEN /\ botAt' = page_index
                /\ clean' = FALSE
                /\ pc' = "finally"
                /\ after' = "exit"
           ELSE /\ pc' = "cards"
                /\ UNCHANGED << botAt, clean, after >>
    /\ UNCHANGED << kwIdx, params, locals, attempt, extraction, enrichment,
                    pi, scopes, sink, site, started, pagesOpened, enrichLog >>
    /\ UNCHANGED functions

\* if len(cards) > remaining: cards = cards[:remaining]
TruncateNone(cs, remaining) == cs
TruncateTail(cs, remaining) ==
    IF Len(cs) > remaining
      THEN SubSeq(cs, Len(cs) - remaining + 1, Len(cs))
      ELSE cs
Truncate(cs, remaining) ==
    IF Len(cs) > remaining THEN SubSeq(cs, 1, remaining) ELSE cs

\* cards = await page.locator(...).all(), the two early breaks, truncation.
QueryCards ==
    /\ pc = "cards"
    /\ \E n \in 0..MaxCards :
         LET found == [i \in 1..n |-> i]
             remaining == max_items - total_collected
         IN  /\ site' = IF search_url \in DOMAIN site
                           THEN [site EXCEPT ![search_url] = n]
                           ELSE site
             /\ IF found = << >> \/ remaining <= 0
                   THEN /\ pc' = "finally"
                        /\ after' = "exit"
                        /\ UNCHANGED extraction
                   ELSE /\ cards' = Truncate(found, remaining)
                        /\ ci' = 1
                        /\ items' = << >>
                        /\ pc' = "extract"
                        /\ after' = after
    /\ enrichLog' = "nominal"
    /\ UNCHANGED << kwIdx, params, locals, navLoop, enrichment, pi, scopes,
                    sink, started, pagesOpened,
                    botAt, clean >>
    /\ UNCHANGED functions

\* The round without `except asyncio.TimeoutError: ... continue`: a card
\* past its deadline raises into the per-page handler.
ParseCardTimeoutAborts ==
    /\ pc = "extract"
    /\ ci <= Len(cards)
    /\ \E outcome \in {"item", "none", "timeout"} :
         /\ items' = IF outcome = "item" THEN Append(items, Item(cards[ci]))
                                         ELSE items
         /\ clean' = (clean /\ outcome = "item")
         /\ IF outcome = "timeout"
              THEN pc' = "finally" /\ after' = "exit" /\ ci' = ci
              ELSE pc' = pc /\ after' = after /\ ci' = ci + 1
    /\ UNCHANGED << kwIdx, params, locals, navLoop, cards, enrichment, pi,
                    scopes, sink, site, started, pagesOpened,
                    botAt, enrichLog >>
    /\ UNCHANGED functions

\* One round of _extract_product_cards' loop: _parse_single_card returns a
\* record, returns None, or runs past the 5 s deadline; only a record is
\* appended.
ParseCard ==
    /\ pc = "extract"
    /\ ci <= Len(cards)
    /\ \E outcome \in {"item", "none", "timeout"} :
         /\ items' = IF outcome = "item" THEN Append(items, Item(cards[ci]))
                                         ELSE items
         /\ clean' = (clean /\ outcome = "item")
    /\ ci' = ci + 1
    /\ UNCHANGED << kwIdx, params, locals, navLoop, cards, enrichment, pi,
                    after, scopes, sink, pc, site, started, pagesOpened,
                    botAt, enrichLog >>
    /\ UNCHANGED functions

\* `if not items: break` left out: a page without surviving records is
\* followed by the next-page lookup.
ExtractDoneSkipsEmptyPage ==
    /\ pc = "extract"
    /\ ci > Len(cards)
    /\ IF items = << >>
         THEN /\ pc' = "next_btn"
              /\ UNCHANGED << after, detail_count, di, pi >>
         ELSE IF fetch_details /\ max_detail_items > 0
           THEN /\ detail_count' = 0
                /\ di' = 1
                /\ pc' = "enrich"
                /\ UNCHANGED << after, pi >>
           ELSE /\ pi' = 1
                /\ pc' = "push"
                /\ UNCHANGED << after, detail_count, di >>
    /\ UNCHANGED << kwIdx, params, locals, navLoop, extraction, detail_page,
                    scopes, sink, history >>
    /\ UNCHANGED functions

\* _extract_product_cards returned: break when nothing was parsed, else go
\* to the enrichment loop (detail_count = 0) or straight to the push loop.
ExtractDone ==
    /\ pc = "extract"
    /\ ci > Len(cards)
    /\ IF items = << >>
         THEN /\ pc' = "finally"
              /\ after' = "exit"
              /\ UNCHANGED << detail_count, di, pi >>
         ELSE IF fetch_details /\ max_detail_items > 0
           THEN /\ detail_count' = 0
                /\ di' = 1
                /\ pc' = "enrich"
                /\ UNCHANGED << after, pi >>
           ELSE /\ pi' = 1
                /\ pc' = "push"
                /\ UNCHANGED << after, detail_count, di >>
    /\ UNCHANGED << kwIdx, params, locals, navLoop, extraction, detail_page,
                    scopes, sink, history >>
    /\ UNCHANGED functions


\* ------------------------------------------------------------ enrichment
\* if detail_count >= max_detail_items: break
DetailCapOffByOne(dc) == dc > max_detail_items
DetailCapReached(dc) == dc >= max_detail_items

\* for item in items: the cap test, then detail_url = item.get('productUrl')
\* and continue when it is empty (a title link whose href starts with '?').
EnrichHead ==
    /\ pc = "enrich"
    /\ IF di > Len(items) \/ DetailCapReached(detail_count)
         THEN /\ pi' = 1
              /\ pc' = "push"
              /\ di' = di
              /\ enrichLog' = enrichLog
         ELSE \E detail_url \in {"", "https://www.amazon.com/dp/B0"} :
                IF detail_url = ""
                  THEN /\ di' = di + 1
                       /\ enrichLog' = IF enrichLog = "nominal" THEN "gap"
                                                                ELSE enrichLog
                       /\ UNCHANGED << pc, pi >>
                  ELSE /\ pc' = "d_new"
                       /\ UNCHANGED << di, pi, enrichLog >>
    /\ UNCHANGED << kwIdx, params, locals, navLoop, extraction, detail_count,
                    detail_page, after, scopes, sink, site, started,
                    pagesOpened, botAt, clean >>
    /\ UNCHANGED functions

\* detail_page = await context.new_page()
DetailNewPageOk ==
    /\ pc = "d_new"
    /\ detail_page' = "open"
    /\ openDetail' = openDetail + 1
    /\ pc' = "d_goto"
    /\ UNCHANGED << kwIdx, params, locals, navLoop, extraction, detail_count,
                    di, pi, after, openSearch, contextOpen, sink, history >>
    /\ UNCHANGED functions

\* The failure of new_page() with no handler around the enrichment: it
\* reaches the per-page handler and ends the crawl.
DetailNewPageFailEscapes ==
    /\ pc = "d_new"
    /\ enrichLog' = "failed"
    /\ clean' = FALSE
    /\ pc' = "finally"
    /\ after' = "exit"
    /\ UNCHANGED << kwIdx, params, locals, navLoop, extraction, enrichment,
                    pi, scopes, sink, site, started, pagesOpened, botAt >>
    /\ UNCHANGED functions

\* new_page() raises: except Exception, then the finally block, where
\* detail_page is still what it was (unbound, or the previous closed page).
DetailNewPageFail ==
    /\ pc = "d_new"
    /\ enrichLog' = "failed"
    /\ clean' = FALSE
    /\ pc' = "d_close"
    /\ UNCHANGED << kwIdx, params, locals, navLoop, extraction, enrichment,
                    pi, after, scopes, sink, site, started, pagesOpened,
                    botAt >>
    /\ UNCHANGED functions

\* await detail_page.goto(detail_url, ...) returns or raises.
DetailGoto ==
    /\ pc = "d_goto"
    /\ \E ok \in BOOLEAN :
         /\ pc' = IF ok THEN "d_crumbs" ELSE "d_close"
         /\ enrichLog' = IF ok THEN enrichLog ELSE "failed"
         /\ clean' = (clean /\ ok)
    /\ UNCHANGED << kwIdx, params, locals, navLoop, extraction, enrichment,
                    pi, after, scopes, sink, site, started, pagesOpened,
                    botAt >>
    /\ UNCHANGED functions

\* The breadcrumb loop: item['categoryPath'] is set when the list is
\* non-empty; a raising locator call goes to the handler.
ReadBreadcrumbs ==
    /\ pc = "d_crumbs"
    /\ \E r \in {"some", "empty", "raise"} :
         /\ items' = IF r = "some"
                       THEN [items EXCEPT ![di].enriched = TRUE]
                       ELSE items
         /\ pc' = IF r = "raise" THEN "d_close" ELSE "d_bullets"
         /\ enrichLog' = IF r = "raise" THEN "failed" ELSE enrichLog
         /\ clean' = (clean /\ r # "raise")
    /\ UNCHANGED << kwIdx, params, locals, navLoop, cards, ci, enrichment,
                    pi, after, scopes, sink, site, started, pagesOpened,
                    botAt >>
    /\ UNCHANGED functions

\* The bullet loop: item['featureBullets'] is set when the list is
\* non-empty, then detail_count += 1; a raising call skips both.
ReadBullets ==
    /\ pc = "d_bullets"
    /\ \E r \in {"some", "empty", "raise"} :
         /\ items' = IF r = "some"
                       THEN [items EXCEPT ![di].enriched = TRUE]
                       ELSE items
         /\ detail_count' = IF r = "raise" THEN detail_count
                                           ELSE detail_count + 1
         /\ enrichLog' = IF r = "raise" THEN "failed"
                         ELSE IF r = "empty" /\ ~items[di].enriched
                                /\ enrichLog = "nominal" THEN "gap"
                         ELSE enrichLog
         /\ clean' = (clean /\ r # "raise")
    /\ pc' = "d_close"
    /\ UNCHANGED << kwIdx, params, locals, navLoop, cards, ci, di,
                    detail_page, pi, after, scopes, sink, site, started,
                    pagesOpened, botAt >>
    /\ UNCHANGED functions

\* finally: try: await detail_page.close() except Exception: pass -- an
\* unbound name or a failing close is swallowed; the loop takes the next item.
DetailClose ==
    /\ pc = "d_close"
    /\ IF detail_page = "open"
         THEN /\ detail_page' = "closed"
              /\ openDetail' = openDetail - 1
         ELSE UNCHANGED << detail_page, openDetail >>
    /\ di' = di + 1
    /\ pc' = "enrich"
    /\ UNCHANGED << kwIdx, params, locals, navLoop, extraction, detail_count,
                    pi, after, openSearch, contextOpen, sink, history >>
    /\ UNCHANGED functions

\* -------------------------------------------------- emission, pagination
\* await Actor.push_data({keyword, country, pageIndex, **item}) returns.
PushItem ==
    /\ pc = "push"
    /\ pi <= Len(items)
    /\ sink' = Append(sink, OutRecord(Keywords[kwIdx], page_index, items[pi]))
    /\ pi' = pi + 1
    /\ UNCHANGED << pc, kwIdx, params, locals, navLoop, extraction,
                    enrichment, after, scopes, history >>
    /\ UNCHANGED functions

\* push_data raises: per-page handler, break.
PushFail ==
    /\ pc = "push"
    /\ pi <= Len(items)
    /\ clean' = FALSE
    /\ pc' = "finally"
    /\ after' = "exit"
    /\ UNCHANGED << kwIdx, params, locals, navLoop, extraction, enrichment,
                    pi, scopes, sink, site, started, pagesOpened, botAt,
                    enrichLog >>
    /\ UNCHANGED functions

\* total_collected += len(items); if total_collected >= max_items: break
PushDone ==
    /\ pc = "push"
    /\ pi > Len(items)
    /\ total_collected' = total_collected + Len(items)
    /\ IF total_collected' >= max_items
         THEN pc' = "finally" /\ after' = "exit"
         ELSE pc' = "next_btn" /\ after' = after
    /\ UNCHANGED << kwIdx, params, page_index, search_url, navLoop,
                    extraction, enrichment, pi, scopes, sink, history >>
    /\ UNCHANGED functions

\* if await next_btn.count() == 0: break
NextBtn ==
    /\ pc = "next_btn"
    /\ \E count \in 0..1 :
         IF count = 0
           THEN pc' = "finally" /\ after' = "exit" /\ clean' = FALSE
           ELSE pc' = "next_href" /\ after' = after /\ clean' = clean
    /\ UNCHANGED << kwIdx, params, locals, navLoop, extraction, enrichment,
                    pi, scopes, sink, site, started, pagesOpened, botAt,
                    enrichLog >>
    /\ UNCHANGED functions

\* The next-page step without `page_index += 1`.
NextHrefNoIncrement ==
    /\ pc = "next_href"
    /\ \E href \in {"", "/s?page=next"} :
         IF href = ""
           THEN /\ after' = "exit"
                /\ clean' = FALSE
                /\ UNCHANGED << page_index, search_url >>
           ELSE /\ search_url' = search_url + 1
                /\ page_index' = page_index
                /\ after' = "loop"
                /\ clean' = clean
    /\ pc' = "finally"
    /\ UNCHANGED << kwIdx, params, total_collected, navLoop, extraction,
                    enrichment, pi, scopes, sink, site, started, pagesOpened,
                    botAt, enrichLog >>
    /\ UNCHANGED functions

\* next_href = ...get_attribute('href'); break when empty, else
\* search_url = the next page's URL and page_index += 1.
NextHref ==
    /\ pc = "next_href"
    /\ \E href \in {"", "/s?page=next"} :
         IF href = ""
           THEN /\ after' = "exit"
                /\ clean' = FALSE
                /\ UNCHANGED << page_index, search_url >>
           ELSE /\ search_url' = search_url + 1
                /\ page_index' = page_index + 1
                /\ after' = "loop"
                /\ clean' = clean
    /\ pc' = "finally"
    /\ UNCHANGED << kwIdx, params, total_collected, navLoop, extraction,
                    enrichment, pi, scopes, sink, site, started, pagesOpened,
                    botAt, enrichLog >>
    /\ UNCHANGED functions

\* An awaited page call other than goto's timeout raises inside the try
\* block: except Exception: log, break.
PageOpFails ==
    /\ pc \in {"settle", "backoff", "content", "cards", "next_btn",
               "next_href"}
    /\ clean' = FALSE
    /\ pc' = "finally"
    /\ after' = "exit"
    /\ UNCHANGED << kwIdx, params, locals, navLoop, extraction, enrichment,
                    pi, scopes, sink, site, started, pagesOpened, botAt,
                    enrichLog >>
    /\ UNCHANGED functions

\* The per-page block is left: attempt, cards, items, detail_count and the
\* loop indices are dead (each is assigned again before its next use), so
\* they take their initial values.  detail_page is not dead: the finally
\* block of the enrichment loop reads it.
PageLocalsDead ==
    /\ attempt' = 1
    /\ botChecks' = 0
    /\ cards' = << >>
    /\ ci' = 1
    /\ items' = << >>
    /\ detail_count' = 0
    /\ di' = 1
    /\ pi' = 1
    /\ after' = "exit"
    /\ enrichLog' = "nominal"

\* page.close() at the end of the try body instead of in a finally block:
\* a break or a handled exception leaves the page open.
PageCloseOnlyOnAdvance ==
    /\ pc = "finally"
    /\ openSearch' = IF after = "loop" THEN openSearch - 1 ELSE openSearch
    /\ IF after = "loop"
         THEN pc' = "while" /\ site' = site
         ELSE pc' = "return" /\ site' \in Unrequested(site)
    /\ PageLocalsDead
    /\ UNCHANGED << kwIdx, params, locals, detail_page, openDetail,
                    contextOpen, sink, started, pagesOpened, botAt, clean >>
    /\ UNCHANGED functions

\* finally: await page.close() returns; the loop goes round or is left.
PageCloseOk ==
    /\ pc = "finally"
    /\ openSearch' = openSearch - 1
    /\ IF after = "loop"
         THEN pc' = "while" /\ site' = site
         ELSE pc' = "return" /\ site' \in Unrequested(site)
    /\ PageLocalsDead
    /\ UNCHANGED << kwIdx, params, locals, detail_page, openDetail,
                    contextOpen, sink, started, pagesOpened, botAt, clean >>
    /\ UNCHANGED functions

\* page.close() raises inside the finally block: nothing catches it, the
\* exception leaves _scrape_keyword and main()'s for loop.
PageCloseFail ==
    /\ pc = "finally"
    /\ openSearch' = openSearch - 1
    /\ clean' = FALSE
    /\ pc' = "main_raise"
    /\ PageLocalsDead
    /\ UNCHANGED << kwIdx, params, locals, detail_page, openDetail,
                    contextOpen, sink, site, started, pagesOpened, botAt >>
    /\ UNCHANGED functions

Next ==
    \/ StartKeyword \/ KeywordsDone \/ MainFinally
    \/ WhileTest \/ Return
    \/ NewPageOk \/ NewPageFail
    \/ GotoOk \/ GotoTimeout \/ GotoError \/ Backoff \/ Settle
    \/ ReadContent \/ QueryCards \/ ParseCard \/ ExtractDone
    \/ EnrichHead \/ DetailNewPageOk \/ DetailNewPageFail \/ DetailGoto
    \/ ReadBreadcrumbs \/ ReadBullets \/ DetailClose
    \/ PushItem \/ PushFail \/ PushDone
    \/ NextBtn \/ NextHref \/ PageOpFails
    \/ PageCloseOk \/ PageCloseFail

Spec == Init /\ [][Next]_vars

\* Every awaited browser or dataset call returns or raises, so the flow
\* always takes its next step.
FairSpec == Spec /\ WF_vars(Next)

\* ====================================================== _normalize_input
\* str.strip() and str.upper() on the texts the inputs below are made of.
Strip(s) ==
    CASE s = " case " -> "case"
      [] s = "  " -> ""
      [] s = " Best Seller " -> "Best Seller"
      [] s = " " -> ""
      [] OTHER -> s

Upper(s) ==
    CASE s = "de" -> "DE"
      [] s = "xx" -> "XX"
      [] OTHER -> s

\* bool(v): None, 0, 0.0, False, '' and [] are false.
Truthy(v) ==
    CASE v.kind \in {"None", "missing"} -> FALSE
      [] v.kind \in {"int", "float", "bool", "list"} -> v.n # 0
      [] v.kind = "str" -> v.s # ""
      [] OTHER -> TRUE

\* raw.get(key, default), v being raw's entry for the key.
Get(v, default) == IF v.kind = "missing" THEN default ELSE v

\* v or default
OrNoneOnly(v, default) == IF v.kind = "None" THEN default ELSE v
Or(v, default) == IF Truthy(v) THEN v ELSE default

\* int(s) and float(s) of a str: the number the text spells, or ValueError.
IntOfStr(s) ==
    CASE s = "7" -> IntV(7)
      [] s = "0" -> IntV(0)
      [] OTHER -> Raise("ValueError")

FloatOfStr(s) ==
    CASE s = "7" -> FloatV(70)
      [] s = "0" -> FloatV(0)
      [] s = "4.5" -> FloatV(45)
      [] OTHER -> Raise("ValueError")

\* int(v): a float is cut towards zero; None and a list are a TypeError.
IntOf(v) ==
    CASE v.kind \in {"int", "bool"} -> IntV(v.n)
      [] v.kind = "float" ->
             IntV(IF v.n >= 0 THEN v.n \div 10 ELSE 0 - ((0 - v.n) \div 10))
      [] v.kind = "str" -> IntOfStr(v.s)
      [] OTHER -> Raise("TypeError")

\* float(v)
FloatOf(v) ==
    CASE v.kind \in {"int", "bool"} -> FloatV(10 * v.n)
      [] v.kind = "float" -> v
      [] v.kind = "str" -> FloatOfStr(v.s)
      [] OTHER -> Raise("TypeError")

\* keywords: a str becomes a one-element list, the list keeps the stripped
\* non-empty str elements (a ListV holds numbers: none is kept), and an
\* empty list becomes the default keyword.
NormKeywords(v) ==
    LET got == Or(Get(v, NoneV), ListV(0))
        kept == IF got.kind = "str" /\ Strip(got.s) # ""
                  THEN << Strip(got.s) >> ELSE << >>
    IN  IF kept = << >> THEN << "iphone 17 case" >> ELSE kept

\* max_items_per_keyword = int(raw.get(.., 50) or 50); <= 0 becomes 50.
NormMaxItems(v) ==
    LET i == IntOf(Or(Get(v, IntV(50)), IntV(50)))
    IN  IF i.kind = "raise" THEN i ELSE IntV(IF i.n <= 0 THEN 50 ELSE i.n)

\* max_pages = int(raw.get(.., 3) or 3); <= 0 becomes 1, > 20 becomes 20.
NormMaxPages(v) ==
    LET i == IntOf(Or(Get(v, IntV(3)), IntV(3)))
    IN  IF i.kind = "raise" THEN i
        ELSE IntV(IF i.n <= 0 THEN 1 ELSE IF i.n > 20 THEN 20 ELSE i.n)

\* country = (raw.get('country') or 'US').upper(); unknown codes become 'US'.
NormCountry(v) ==
    LET got == Or(Get(v, NoneV), StrV("US"))
    IN  IF got.kind # "str" THEN Raise("AttributeError")
        ELSE IF Upper(got.s) \in {"US", "UK", "DE", "FR", "JP"}
               THEN StrV(Upper(got.s)) ELSE StrV("US")

\* min_rating: float(raw['min_rating']) unless the entry is None or missing;
\* TypeError and ValueError are caught and leave None.
NormMinRating(v) ==
    IF Get(v, NoneV).kind = "None" THEN NoneV
    ELSE LET f == FloatOf(v)
         IN  IF f.kind = "raise" THEN NoneV ELSE f

\* min_reviews: int(raw['min_reviews']), kept when > 0; same handler.
NormMinReviews(v) ==
    IF Get(v, NoneV).kind = "None" THEN NoneV
    ELSE LET i == IntOf(v)
         IN  IF i.kind = "raise" \/ i.n <= 0 THEN NoneV ELSE i

\* max_detail_items = int(raw.get(.., 5) or 5); <= 0 becomes 1, > 50 -> 50.
NormMaxDetailItems(v) ==
    LET i == IntOf(Or(Get(v, IntV(5)), IntV(5)))
    IN  IF i.kind = "raise" THEN i
        ELSE IntV(IF i.n <= 0 THEN 1 ELSE IF i.n > 50 THEN 50 ELSE i.n)

\* _normalize_input(raw): the AmazonSearchInput, or the first exception raised on
\* the way (the statements run in the order of the source).
Normalize(raw) ==
    LET mi == NormMaxItems(raw.max_items_per_keyword)
        mp == NormMaxPages(raw.max_pages)
        co == NormCountry(raw.country)
        md == NormMaxDetailItems(raw.max_detail_items)
    IN  IF mi.kind = "raise" THEN mi
        ELSE IF mp.kind = "raise" THEN mp
        ELSE IF co.kind = "raise" THEN co
        ELSE IF md.kind = "raise" THEN md
        ELSE [kind |-> "AmazonSearchInput",
              keywords |-> NormKeywords(raw.keywords),
              max_items_per_keyword |-> mi.n,
              max_pages |-> mp.n,
              country |-> co.s,
              min_rating |-> NormMinRating(raw.min_rating),
              min_reviews |-> NormMinReviews(raw.min_reviews),
              exclude_sponsored |->
                  Truthy(Get(raw.exclude_sponsored, BoolV(FALSE))),
              fetch_details |-> Truthy(Get(raw.fetch_details, BoolV(FALSE))),
              max_detail_items |-> md.n]

\* The raw inputs explored: per key, the key missing, null, numbers below,
\* at and above the limits, texts that spell a number or do not, a list.
CountSamples ==
    { Missing, NoneV, IntV(0), IntV(0 - 1), IntV(2), IntV(99), StrV("abc"),
      StrV("7"), ListV(1) }

RawInputs ==
    [ kind : {"dict"},
      keywords : { Missing, StrV(" case ") },
      max_items_per_keyword : CountSamples \ { IntV(99) },
      max_pages : CountSamples,
      country : { Missing, StrV("de") },
      min_rating : { Missing, NoneV, IntV(0), StrV("4.5"), StrV("abc"),
                     ListV(1) },
      min_reviews : { Missing, NoneV, IntV(0), IntV(0 - 1), IntV(5),
                      StrV("abc") },
      exclude_sponsored : { Missing, BoolV(TRUE) },
      fetch_details : { Missing },
      max_detail_items : CountSamples ]

InitNormalize ==
    /\ max_items = 1
    /\ max_pages = 1
    /\ fetch_details = FALSE
    /\ max_detail_items = 1
    /\ CrawlStart
    /\ ParseIdle
    /\ raw_input \in RawInputs
    /\ parsed_input = Missing

\* parsed_input = _normalize_input(raw_input)  -- main(), returning or raising
NormalizeInput ==
    /\ raw_input.kind = "dict"
    /\ parsed_input.kind = "missing"
    /\ parsed_input' = Normalize(raw_input)
    /\ UNCHANGED << pc, kwIdx, params, locals, navLoop, extraction,
                    enrichment, pi, after, scopes, sink, history, raw_input,
                    parsing >>

NextNormalize == NormalizeInput

SpecNormalize == InitNormalize /\ [][NextNormalize]_vars

\* ==================================================== _parse_single_card
MaxBadges == 3        \* most badge elements one card holds

\* Texts are sequences of one-character strings where the code looks at
\* characters (the price), and strings where it does not.
DigitChars == { "0", "1", "2", "3", "4", "5", "6", "7", "8", "9" }

DigitVal(ch) ==
    CASE ch = "0" -> 0 [] ch = "1" -> 1 [] ch = "2" -> 2 [] ch = "3" -> 3
      [] ch = "4" -> 4 [] ch = "5" -> 5 [] ch = "6" -> 6 [] ch = "7" -> 7
      [] ch = "8" -> 8 [] ch = "9" -> 9

\* str.strip() and str.split()[-1] on a character sequence.
RECURSIVE StripChars(_)
StripChars(t) ==
    IF t = << >> THEN t
    ELSE IF Head(t) = " " THEN StripChars(Tail(t))
    ELSE IF t[Len(t)] = " " THEN StripChars(SubSeq(t, 1, Len(t) - 1))
    ELSE t

RECURSIVE LastToken(_)
LastToken(t) ==
    IF t = << >> \/ t[Len(t)] = " " THEN << >>
    ELSE Append(LastToken(SubSeq(t, 1, Len(t) - 1)), t[Len(t)])

HasChar(t, ch) == \E i \in 1..Len(t) : t[i] = ch
RemoveChar(t, ch) == SelectSeq(t, LAMBDA x : x # ch)
ReplaceChar(t, a, b) == [i \in 1..Len(t) |-> IF t[i] = a THEN b ELSE t[i]]

\* ch.isdigit() or ch in ',.'
IsNumericChar(ch) == ch \in DigitChars \cup { ",", "." }

RECURSIVE DigitsValue(_)
DigitsValue(t) ==
    IF t = << >> THEN 0
    ELSE 10 * DigitsValue(SubSeq(t, 1, Len(t) - 1)) + DigitVal(t[Len(t)])

RECURSIVE Pow10(_)
Pow10(k) == IF k = 0 THEN 1 ELSE 10 * Pow10(k - 1)

\* float(normalized) of digits and dots: the value in thousandths, or
\* ValueError when there is no digit or more than one dot.
FloatOfChars(t) ==
    LET digits == RemoveChar(t, ".")
        dots == Len(t) - Len(digits)
        dot == CHOOSE i \in 1..Len(t) : t[i] = "."
        frac == IF dots = 0 THEN 0 ELSE Len(t) - dot
    IN  IF digits = << >> \/ dots > 1 THEN Raise("ValueError")
        ELSE IF frac <= 3
          THEN V("float", DigitsValue(digits) * Pow10(3 - frac), "milli")
          ELSE V("float", DigitsValue(digits) \div Pow10(frac - 3), "milli")

\* price: the digits, commas and dots of the text; a comma without a dot is
\* a decimal comma, otherwise commas are thousands separators.
PriceOf(whole) ==
    LET numeric_part == SelectSeq(whole, IsNumericChar)
        normalized ==
            IF HasChar(numeric_part, ",") /\ ~HasChar(numeric_part, ".")
              THEN ReplaceChar(RemoveChar(numeric_part, "."), ",", ".")
              ELSE RemoveChar(numeric_part, ",")
        f == FloatOfChars(normalized)
    IN  IF whole = << >> \/ numeric_part = << >> \/ f.kind = "raise"
          THEN NoneV ELSE f

\* currency: the first character when it is a currency symbol, else the
\* last whitespace-separated token when it has 3 or 4 characters, else ''.
CurrencyOf(text) ==
    LET stripped == StripChars(text)
        last_token == LastToken(stripped)
    IN  IF text = << >> THEN << >>
        ELSE IF stripped # << >> /\ stripped[1] \in { "$", "€", "£", "¥" }
          THEN << stripped[1] >>
        ELSE IF Len(last_token) \in {3, 4} THEN last_token
        ELSE << >>

\* if cleaned and cleaned not in badges: badges.append(cleaned)
AppendBadgeNoDedupe(bs, text) ==
    IF Truthy(text) /\ Strip(text.s) # "" THEN Append(bs, Strip(text.s))
                                           ELSE bs
AppendBadge(bs, text) ==
    IF /\ Truthy(text)
       /\ Strip(text.s) # ""
       /\ \A i \in 1..Len(bs) : bs[i] # Strip(text.s)
      THEN Append(bs, Strip(text.s))
      ELSE bs

\* The badge loop over the first n element texts.
RECURSIVE BadgesOf(_, _)
BadgesOf(texts, n) ==
    IF n = 0 THEN << >>
             ELSE AppendBadge(BadgesOf(texts, n - 1), texts[n])

\* The three filter tests of _parse_single_card.
FilteredAbsentToo(mr, rv, mrev, rc, ex, sp) ==
    \/ mr.kind # "None" /\ (rv.kind = "None" \/ rv.n < mr.n)
    \/ mrev.kind # "None" /\ (rc.kind = "None" \/ rc.n < mrev.n)
    \/ ex /\ sp
Filtered(mr, rv, mrev, rc, ex, sp) ==
    \/ mr.kind # "None" /\ rv.kind # "None" /\ rv.n < mr.n
    \/ mrev.kind # "None" /\ rc.kind # "None" /\ rc.n < mrev.n
    \/ ex /\ sp

\* return None; s names the return statement for the record of the run.
ReturnNone(why) == V("None", 0, why)

\* What the environment serves: the price text, the rating and review
\* texts with what split, replace and float/int make of them, badge texts,
\* the sponsored label.
PriceTextSamples ==
    { << >>,
      << "$", "9", "2", ".", "1", "4" >>,
      << " ", "$", "9", "2", ".", "1", "4", " " >>,
      << "9", "2", ",", "1", "4", " ", "€" >>,
      << "1", ",", "2", "3", "4", ".", "5", "6" >>,
      << "9", "2", ",", "1", "4", " ", "E", "U", "R" >>,
      << "£", "5" >>,
      << "1", "5", "0", "0" >>,
      << "F", "r", "e", "e" >>,
      << "1", ".", "2", ".", "3", "0", " ", "a" >> }

\* float(rating_text.split()[0].replace(',', '.'))
RatingOf(text) ==
    CASE text = "4.5 out of 5 stars" -> FloatV(45)
      [] text = "3,0 von 5 Sternen" -> FloatV(30)
      [] OTHER -> NoneV

\* int(reviews_text.replace(',', '').replace('.', ''))
ReviewsOf(text) ==
    CASE text = "1,234" -> IntV(1234)
      [] text = "10" -> IntV(10)
      [] OTHER -> NoneV

RatingTextSamples == { "", "4.5 out of 5 stars", "3,0 von 5 Sternen", "New" }
ReviewsTextSamples == { "", "1,234", "10", "(12)" }

BadgeTextSamples ==
    { NoneV, StrV(" "), StrV("Best Seller"), StrV(" Best Seller "),
      StrV("Amazon's Choice") }

BadgeLists ==
    UNION { [1..n -> BadgeTextSamples] : n \in 0..MaxBadges }

InitCard ==
    /\ max_items = 1
    /\ max_pages = 1
    /\ fetch_details = FALSE
    /\ max_detail_items = 1
    /\ CrawlStart
    /\ NormalizeIdle
    /\     /\ ppc = "asin"
    /\ min_rating \in { NoneV, FloatV(40) }
    /\ min_reviews \in { NoneV, IntV(100) }
    /\ exclude_sponsored \in BOOLEAN
    /\ asin = NoneV
    /\ price_text = << >>
    /\ price = NoneV
    /\ currency = << >>
    /\ rating_value = NoneV
    /\ reviews_count = NoneV
    /\ badge_texts = << >>
    /\ badges = << >>
    /\ is_sponsored = FALSE
    /\ result = Missing

crawl == << pc, kwIdx, params, locals, navLoop, extraction, enrichment, pi,
            after, scopes, sink, history >>
notItems == << pc, kwIdx, params, locals, navLoop, cards, ci, enrichment, pi,
               after, scopes, sink, history >>
filterArgs == << min_rating, min_reviews, exclude_sponsored >>

\* asin = await card.get_attribute('data-asin'); if not asin: return None
P_AsinNoCheck ==
    /\ ppc = "asin"
    /\ \E a \in { NoneV, StrV(""), StrV("B0CARD") } : asin' = a
    /\ ppc' = "title"
    /\ UNCHANGED << crawl, normalizing, filterArgs, price_text, price,
                    currency, rating_value, reviews_count, badge_texts,
                    badges, is_sponsored, result >>

P_Asin ==
    /\ ppc = "asin"
    /\ \E a \in { NoneV, StrV(""), StrV("B0CARD") } :
         /\ asin' = a
         /\ IF Truthy(a)
              THEN ppc' = "title" /\ result' = result
              ELSE ppc' = "returned" /\ result' = ReturnNone("no asin")
    /\ UNCHANGED << crawl, normalizing, filterArgs, price_text, price,
                    currency, rating_value, reviews_count, badge_texts,
                    badges, is_sponsored >>

\* The title link (primary selector, then the fallback), its text and its
\* href: no link or no href returns None.  title and product_url are
\* written to the record only.
P_Title ==
    /\ ppc = "title"
    /\ \E primary \in 0..1, fallback \in 0..1,
          href \in { NoneV, StrV(""), StrV("/dp/B0CARD?ref=sr") } :
         IF primary = 0 /\ fallback = 0
           THEN ppc' = "returned" /\ result' = ReturnNone("no title")
           ELSE IF ~Truthy(href)
             THEN ppc' = "returned" /\ result' = ReturnNone("no href")
             ELSE ppc' = "price" /\ result' = result
    /\ UNCHANGED << crawl, normalizing, filterArgs, asin, price_text, price,
                    currency, rating_value, reviews_count, badge_texts,
                    badges, is_sponsored >>

\* The price element's text, stripped; price and currency from it.
P_Price ==
    /\ ppc = "price"
    /\ \E content \in PriceTextSamples :
         LET whole == StripChars(content)
         IN  /\ price_text' = whole
             /\ price' = PriceOf(whole)
             /\ currency' = CurrencyOf(whole)
    /\ ppc' = "rating"
    /\ UNCHANGED << crawl, normalizing, filterArgs, asin, rating_value,
                    reviews_count, badge_texts, badges, is_sponsored,
                    result >>

\* The original price text (written to the record only), then the rating.
P_Rating ==
    /\ ppc = "rating"
    /\ \E rating_text \in RatingTextSamples :
         rating_value' = IF rating_text = "" THEN NoneV
                                             ELSE RatingOf(rating_text)
    /\ ppc' = "reviews"
    /\ UNCHANGED << crawl, normalizing, filterArgs, asin, price_text, price,
                    currency, reviews_count, badge_texts, badges,
                    is_sponsored, result >>

\* The review count, then is_prime and brand (written to the record only).
P_Reviews ==
    /\ ppc = "reviews"
    /\ \E reviews_text \in ReviewsTextSamples :
         reviews_count' = IF reviews_text = "" THEN NoneV
                                               ELSE ReviewsOf(reviews_text)
    /\ ppc' = "badges"
    /\ UNCHANGED << crawl, normalizing, filterArgs, asin, price_text, price,
                    currency, rating_value, badge_texts, badges,
                    is_sponsored, result >>

\* The badge loop over the texts of the badge elements.
P_Badges ==
    /\ ppc = "badges"
    /\ \E texts \in BadgeLists :
         /\ badge_texts' = texts
         /\ badges' = BadgesOf(texts, Len(texts))
    /\ ppc' = "sponsored"
    /\ UNCHANGED << crawl, normalizing, filterArgs, asin, price_text, price,
                    currency, rating_value, reviews_count, is_sponsored,
                    result >>

\* is_sponsored: 'sponsored' in the stripped, lowered text of the first
\* label.  The badge elements are not read again.
P_Sponsored ==
    /\ ppc = "sponsored"
    /\ \E label \in { NoneV, StrV("Sponsored"), StrV("Free delivery") } :
         is_sponsored' = (Truthy(label) /\ Lower(Strip(label.s)) = "sponsored")
    /\ badge_texts' = << >>
    /\ ppc' = "filters"
    /\ UNCHANGED << crawl, normalizing, filterArgs, asin, price_text, price,
                    currency, rating_value, reviews_count, badges, result >>

\* The filters: a hit returns None.
P_Filters ==
    /\ ppc = "filters"
    /\ IF Filtered(min_rating, rating_value, min_reviews, reviews_count,
                   exclude_sponsored, is_sponsored)
         THEN ppc' = "returned" /\ result' = ReturnNone("filtered")
         ELSE ppc' = "image" /\ result' = result
    /\ UNCHANGED << crawl, normalizing, filterArgs, asin, price_text, price,
                    currency, rating_value, reviews_count, badge_texts,
                    badges, is_sponsored >>

\* The image URL (written to the record only) and the returned dict.
P_Image ==
    /\ ppc = "image"
    /\ result' = [kind |-> "item", asin |-> asin.s, priceText |-> price_text,
                  price |-> price, currency |-> currency,
                  rating |-> rating_value, reviewsCount |-> reviews_count,
                  badges |-> badges, isSponsored |-> is_sponsored]
    /\ ppc' = "returned"
    /\ UNCHANGED << crawl, normalizing, filterArgs, asin, price_text, price,
                    currency, rating_value, reviews_count, badge_texts,
                    badges, is_sponsored >>

\* An awaited locator call raises: except Exception: return None.
P_Raise ==
    /\ ppc \in { "asin", "title", "price", "rating", "reviews", "badges",
                 "sponsored", "image" }
    /\ result' = ReturnNone("exception")
    /\ badge_texts' = << >>
    /\ ppc' = "returned"
    /\ UNCHANGED << crawl, normalizing, filterArgs, asin, price_text, price,
                    currency, rating_value, reviews_count, badges,
                    is_sponsored >>

\* _extract_product_cards: if item: items.append(item)
AppendItem ==
    /\ ppc = "returned"
    /\ items' = IF result.kind = "item" THEN Append(items, result) ELSE items
    /\ ppc' = "done"
    /\ UNCHANGED << notItems, normalizing, filterArgs, asin, price_text,
                    price, currency, rating_value, reviews_count,
                    badge_texts, badges, is_sponsored, result >>

NextCard ==
    \/ P_Asin \/ P_Title \/ P_Price \/ P_Rating \/ P_Reviews \/ P_Badges
    \/ P_Sponsored \/ P_Filters \/ P_Image \/ P_Raise \/ AppendItem

SpecCard == InitCard /\ [][NextCard]_vars

\* ================================================================ claims
\* Positions at which a search page is being requested or processed with
\* the current page_index, and positions of the enrichment loop.
PageBlockPcs ==
    { "new_page", "goto", "backoff", "settle", "content", "cards", "extract",
      "enrich", "d_new", "d_goto", "d_crumbs", "d_bullets", "d_close",
      "push", "next_btn" }

EnrichPcs == { "enrich", "d_new", "d_goto", "d_crumbs", "d_bullets", "d_close" }

\* The push loop of the current page has handed over every item.
PagePushed == pc = "push" /\ pi > Len(items)

\* The records the current page's push loop has handed over.
PageTail == SubSeq(sink, Len(sink) - Len(items) + 1, Len(sink))

EnrichedCount(seq) == Cardinality({ i \in DOMAIN seq : seq[i].enriched })

\* The cards of pages 1..n in the order the crawl meets them.
RECURSIVE PageOrder(_, _)
PageOrder(s, n) ==
    IF n = 0 THEN << >>
             ELSE PageOrder(s, n - 1) \o [i \in 1..s[n] |-> << n, i >>]

\* C1: in every reachable state the number of records handed to the sink for
\* the keyword, and total_collected, are at most max_items_per_keyword.
C1_BudgetNeverExceeded ==
    /\ total_collected <= max_items
    /\ Len(sink) <= max_items

\* C1 witness: the budget is reached on the second page, whose card list
\* was cut to the remaining budget.
C1_Witness ==
    /\ PagePushed
    /\ page_index = 2
    /\ Len(sink) = max_items
    /\ site[2] > Len(cards)

\* C2 as stated: once a page of any index shows a bot-protection marker, the
\* keyword has zero records in total and no further navigation is issued.
C2_ZeroRecordsInTotal ==
    botAt # 0 =>
        /\ sink = << >>
        /\ pc \notin PageBlockPcs \cup { "next_href", "while" }

\* C2 amended: once a page shows a bot-protection marker, no record of that
\* page or of a later page is emitted (none at all when it is the first
\* page), no further search page is opened and no detail page is visited.
C2_NothingAfterBotPage ==
    botAt # 0 =>
        /\ \A i \in DOMAIN sink : sink[i].pageIndex < botAt
        /\ botAt = 1 => sink = << >>
        /\ pagesOpened = botAt
        /\ pc \notin PageBlockPcs \cup { "next_href", "while" }

\* C2 witness: the marker showed on the second page, after the first page's
\* records had been emitted, and the crawl has returned.
C2_Witness ==
    /\ botAt = 2
    /\ Len(sink) >= 1
    /\ pc = "return"

\* C3: no failure inside one keyword's crawl aborts the run: when the run
\* has ended, the crawl of every keyword was started, in list order.
C3_EveryKeywordStarted ==
    pc \in { "done", "aborted" } =>
        started = [i \in 1..NumKeywords |-> i]

\* C4: one keyword's crawl opens (and so navigates) at most max_pages
\* search-result pages.
C4_AtMostMaxPages == pagesOpened <= max_pages

\* C4 witness: every page yielded records and offered a next-page link, the
\* budget is not reached, and the crawl stopped after max_pages pages.
C4_Witness ==
    /\ pc = "return"
    /\ clean
    /\ pagesOpened = max_pages
    /\ page_index = max_pages + 1
    /\ Len(sink) >= 1
    /\ Len(sink) < max_items

\* C5 as stated: page_index never exceeds max_pages.
C5_PageIndexAtMostMaxPages == page_index <= max_pages

\* C5 amended: page_index never exceeds max_pages + 1; it is at most
\* max_pages whenever a page is opened, navigated, parsed or emitted, and
\* in every emitted record.
C5_PageIndexBound ==
    /\ page_index <= max_pages + 1
    /\ pc \in PageBlockPcs => page_index <= max_pages
    /\ \A i \in DOMAIN sink : sink[i].pageIndex <= max_pages

\* C5 witness: pagination has advanced from the last allowed page.
C5_Witness ==
    /\ pc = "while"
    /\ page_index = max_pages + 1

\* The crawl returned from a run in which every card parsed and passed the
\* filters, every page offered an enabled next-page link with a destination,
\* no page was a bot-protection page and no call failed.
ReturnedClean == pc = "return" /\ clean

\* C6 as stated: in such a run the number of records emitted for the keyword
\* is min(max_items, total cards on the first max_pages pages).
C6_CountIsMinOfBudgetAndCards ==
    ReturnedClean => Len(sink) = Min(max_items, SumCards(site, max_pages))

\* C6 amended: in such a run, if moreover each of the first max_pages pages
\* holds at least one card, the emitted records are exactly the first
\* min(max_items, total cards) cards of those pages, page by page in card
\* order, each with the pageIndex of its page.
C6_FirstCardsUpToBudget ==
    (ReturnedClean /\ \A p \in 1..max_pages : site[p] >= 1) =>
        /\ Len(sink) = Min(max_items, SumCards(site, max_pages))
        /\ \A i \in DOMAIN sink :
               << sink[i].pageIndex, sink[i].card >>
                   = PageOrder(site, max_pages)[i]

\* C6 witness: two pages of one and two cards with a budget of two: one
\* record of page 1, then the first card of page 2.
C6_Witness ==
    /\ ReturnedClean
    /\ max_pages = 2
    /\ pagesOpened = 2
    /\ site[1] >= 1
    /\ site[2] >= 2
    /\ Len(sink) = max_items
    /\ Len(sink) < SumCards(site, max_pages)

\* C7: with fetch_details set, the number of the keyword's emitted records
\* that carry categoryPath or featureBullets never exceeds max_detail_items.
C7_EnrichedPerKeywordCapped ==
    fetch_details => EnrichedCount(sink) <= max_detail_items

CardsOf(seq) == [i \in DOMAIN seq |-> seq[i].card]

\* A step taken inside the enrichment loop leaves the page's records in
\* place and stays in the loop or goes on to emission; the finally block of
\* a round always leads to the next record.
EnrichStepKeepsRecords ==
    pc \in EnrichPcs =>
        /\ pc' \in EnrichPcs \cup { "push" }
        /\ CardsOf(items') = CardsOf(items)
        /\ pc = "d_close" => (pc' = "enrich" /\ di' = di + 1)

\* Once the push loop is through, the page's records have been emitted, in
\* card order.
PageRecordsEmitted ==
    PagePushed =>
        /\ Len(sink) >= Len(items)
        /\ CardsOf(PageTail) = CardsOf(items)
        /\ \A i, j \in DOMAIN items : i < j => items[i].card < items[j].card

\* C9: a failure while enriching a record neither discards a record nor ends
\* the crawl: every record that survived extraction is still emitted, in
\* card order, and enrichment continues with the next record.
C9_EnrichmentFailureKeepsRecords ==
    [][EnrichStepKeepsRecords]_vars /\ []PageRecordsEmitted

\* C9 witness: the first record's enrichment failed, the second record was
\* enriched all the same, and both have been emitted.
C9_Witness ==
    /\ PagePushed
    /\ enrichLog = "failed"
    /\ Len(items) = 2
    /\ ~PageTail[1].enriched
    /\ PageTail[2].enriched

\* C10: at most one search page scope and one detail page scope are open at
\* any moment; a detail scope is open only inside one enrichment round; and
\* outside the per-page block (so whenever the crawl returns or is left by
\* an exception) no page scope is open.
C10_ScopesReleased ==
    /\ openSearch \in 0..1
    /\ openDetail \in 0..1
    /\ openDetail = 1 => pc \in { "d_goto", "d_crumbs", "d_bullets", "d_close" }
    /\ openDetail = 1 => detail_page = "open"
    /\ pc \in { "main_for", "while", "new_page", "return", "main_raise",
                "main_finally", "done", "aborted" }
           => openSearch = 0 /\ openDetail = 0
    /\ pc \in PageBlockPcs \cup { "next_href", "finally" } /\ pc # "new_page"
           => openSearch = 1

\* C10 witness: the crawl returned after a failure on its second page, a
\* detail page having been opened and closed on the way.
C10_Witness ==
    /\ pc = "return"
    /\ ~clean
    /\ pagesOpened = 2
    /\ detail_page = "closed"

\* ------------------------------------------------------------------ C11
\* A raw entry that is missing, null, a text spelling no number, or of a
\* wrong type.
Malformed(v) ==
    \/ v.kind \in {"missing", "None", "list"}
    \/ v.kind = "str" /\ IntOfStr(v.s).kind = "raise"
                      /\ FloatOfStr(v.s).kind = "raise"

\* C11: _normalize_input never raises, and every malformed entry of
\* max_items_per_keyword, max_pages, max_detail_items, min_rating and
\* min_reviews comes out as the documented default (50, 3, 5, absent, absent).
C11_NeverRaisesDefaultsOnMalformed ==
    parsed_input.kind # "missing" =>
        /\ parsed_input.kind = "AmazonSearchInput"
        /\ Malformed(raw_input.max_items_per_keyword)
               => parsed_input.max_items_per_keyword = 50
        /\ Malformed(raw_input.max_pages) => parsed_input.max_pages = 3
        /\ Malformed(raw_input.max_detail_items)
               => parsed_input.max_detail_items = 5
        /\ Malformed(raw_input.min_rating)
               => parsed_input.min_rating.kind = "None"
        /\ Malformed(raw_input.min_reviews)
               => parsed_input.min_reviews.kind = "None"

\* ------------------------------------------------------------------ C12
NonPositiveInt(v) == v.kind = "int" /\ v.n <= 0

\* C12 (as the code has it): an integer 0 becomes the default (50, 3, 5); a
\* negative integer becomes 50 for max_items_per_keyword but the lower limit
\* 1 for max_pages and max_detail_items; min_reviews <= 0 becomes absent;
\* min_rating 0 is kept as 0.0.
C12_ZeroDefaultsNegativeClamped ==
    parsed_input.kind = "AmazonSearchInput" =>
        /\ NonPositiveInt(raw_input.max_items_per_keyword)
               => parsed_input.max_items_per_keyword = 50
        /\ NonPositiveInt(raw_input.max_pages)
               => parsed_input.max_pages =
                      IF raw_input.max_pages.n = 0 THEN 3 ELSE 1
        /\ NonPositiveInt(raw_input.max_detail_items)
               => parsed_input.max_detail_items =
                      IF raw_input.max_detail_items.n = 0 THEN 5 ELSE 1
        /\ NonPositiveInt(raw_input.min_reviews)
               => parsed_input.min_reviews.kind = "None"
        /\ raw_input.min_rating = IntV(0)
               => parsed_input.min_rating = FloatV(0)

\* C12 witness: negative page and detail limits, a negative review
\* threshold and a rating threshold of 0 were normalized.
C12_Witness ==
    /\ parsed_input.kind = "AmazonSearchInput"
    /\ raw_input.max_items_per_keyword = IntV(0)
    /\ raw_input.max_pages = IntV(0 - 1)
    /\ raw_input.max_detail_items = IntV(0 - 1)
    /\ raw_input.min_reviews = IntV(0 - 1)
    /\ raw_input.min_rating = IntV(0)

\* C12 as stated: every zero or negative integer becomes the default 50, 3, 5.
C12_NonPositiveBecomeDefaults ==
    parsed_input.kind = "AmazonSearchInput" =>
        /\ NonPositiveInt(raw_input.max_items_per_keyword)
               => parsed_input.max_items_per_keyword = 50
        /\ NonPositiveInt(raw_input.max_pages) => parsed_input.max_pages = 3
        /\ NonPositiveInt(raw_input.max_detail_items)
               => parsed_input.max_detail_items = 5
        /\ NonPositiveInt(raw_input.min_reviews)
               => parsed_input.min_reviews.kind = "None"
        /\ raw_input.min_rating = IntV(0)
               => parsed_input.min_rating = FloatV(0)

\* ------------------------------------------------------------------ C13
\* C13: a card whose ASIN is missing or empty yields None and no record,
\* and every record appended by the extraction loop has a non-empty asin.
C13_NoRecordWithoutAsin ==
    /\ \A i \in DOMAIN items : items[i].asin # ""
    /\ (ppc \in {"returned", "done"} /\ asin.kind \in {"None", "str"}
            /\ asin.s = "" /\ result.kind # "missing")
           => result.kind = "None" /\ items = << >>

\* C13 witness: the card with an empty data-asin attribute was parsed and
\* the extraction loop appended nothing.
C13_Witness ==
    /\ ppc = "done"
    /\ asin = StrV("")
    /\ result.kind = "None"
    /\ items = << >>

\* ------------------------------------------------------------------ C14
\* The thresholds that are set, on the values that are present.
BelowMinRating(rv) ==
    min_rating.kind # "None" /\ rv.kind # "None" /\ rv.n < min_rating.n
BelowMinReviews(rc) ==
    min_reviews.kind # "None" /\ rc.kind # "None" /\ rc.n < min_reviews.n

\* C14: every record satisfies the active filters; a card that got as far
\* as the filters is discarded there exactly when its rating is present and
\* below a set minRating, or its review count is present and below a set
\* minReviews, or it is sponsored while excludeSponsored is on; an absent
\* rating or review count never makes a threshold discard the card.
C14_FiltersHold ==
    /\ \A i \in DOMAIN items :
         /\ ~BelowMinRating(items[i].rating)
         /\ ~BelowMinReviews(items[i].reviewsCount)
         /\ ~(exclude_sponsored /\ items[i].isSponsored)
    /\ (result.kind = "None" /\ result.s = "filtered")
           => \/ BelowMinRating(rating_value)
              \/ BelowMinReviews(reviews_count)
              \/ exclude_sponsored /\ is_sponsored
    /\ (ppc = "image" \/ result.kind = "item")
           => /\ ~BelowMinRating(rating_value)
              /\ ~BelowMinReviews(reviews_count)
              /\ ~(exclude_sponsored /\ is_sponsored)

\* C14 witness: both thresholds are set, the card shows no rating, and its
\* review count below minReviews made the filters discard it.
C14_Witness ==
    /\ ppc = "done"
    /\ result.kind = "None" /\ result.s = "filtered"
    /\ min_rating.kind # "None" /\ rating_value.kind = "None"
    /\ BelowMinReviews(reviews_count)
    /\ ~(exclude_sponsored /\ is_sponsored)
    /\ items = << >>

\* ------------------------------------------------------------------ C15
\* C15: "$92.14" gives currency "$" and "92,14 EUR-sign" gives the euro
\* sign; in general the currency is the first character of the price text
\* when that is one of the four symbols, otherwise the trailing token when
\* it is 3 or 4 characters long, otherwise empty.
C15_CurrencyOfPriceText ==
    ppc \notin {"idle", "asin", "title", "price"} =>
        /\ price_text = << "$", "9", "2", ".", "1", "4" >>
               => currency = << "$" >>
        /\ price_text = << "9", "2", ",", "1", "4", " ", "€" >>
               => currency = << "€" >>
        /\ (price_text # << >> /\ price_text[1] \in {"$", "€", "£", "¥"})
               => currency = << price_text[1] >>
        /\ (price_text # << >> /\ price_text[1] \notin {"$", "€", "£", "¥"})
               => currency = IF Len(LastToken(price_text)) \in {3, 4}
                               THEN LastToken(price_text) ELSE << >>
        /\ price_text = << >> => currency = << >>

\* ------------------------------------------------------------------ C16
\* The badge texts as the loop sees them: stripped, '' for a missing text.
Cleaned(i) ==
    IF badge_texts[i].kind = "str" THEN Strip(badge_texts[i].s) ELSE ""

FirstSeen(b) == CHOOSE k \in DOMAIN badge_texts :
                    /\ Cleaned(k) = b
                    /\ \A j \in 1..(k - 1) : Cleaned(j) # b

\* C16: the badges list holds no duplicate and no empty string, holds
\* exactly the non-empty trimmed texts of the badge elements, and holds
\* them in the order in which each was first seen.
C16_BadgesDistinctTrimmedOrdered ==
    ppc = "sponsored" =>
        /\ \A i, j \in DOMAIN badges : i # j => badges[i] # badges[j]
        /\ \A i \in DOMAIN badges : badges[i] # ""
        /\ { badges[i] : i \in DOMAIN badges }
               = { Cleaned(k) : k \in DOMAIN badge_texts } \ { "" }
        /\ \A i, j \in DOMAIN badges :
               i < j => FirstSeen(badges[i]) < FirstSeen(badges[j])

\* C16 witness: a padded text, a second badge, a blank element and a
\* repetition of the first badge were read; two badges came out.
C16_Witness ==
    /\ ppc = "sponsored"
    /\ badge_texts = << StrV(" Best Seller "), StrV("Amazon's Choice"),
                        StrV("Best Seller") >>
    /\ badges = << "Best Seller", "Amazon's Choice" >>

\* ------------------------------------------------------------------ C17
\* Positions of the navigation retry loop, and positions past it.
NavPcs == { "goto", "backoff", "settle" }
LoadedPcs == PageBlockPcs \ { "new_page", "goto", "backoff", "settle" }

\* One step seen from the retry loop.
NavStep ==
    /\ pc' = "goto" /\ pc # "goto"
           => \/ pc = "new_page" /\ attempt' = 1
              \/ pc = "backoff" /\ attempt' = attempt + 1
                                /\ attempt < max_nav_retries
    /\ pc' = "backoff" /\ pc # "backoff"
           => pc = "goto" /\ attempt < max_nav_retries /\ attempt' = attempt
    /\ pc = "backoff" => pc' \in { "backoff", "goto", "finally" }
    /\ pc = "goto" /\ attempt = max_nav_retries
           => \/ pc' \in { "goto", "settle" }
              \/ pc' = "finally" /\ after' = "exit"
    /\ pc = "goto" => pc' \in { "goto", "settle", "backoff", "finally" }
    /\ pc = "settle" => pc' \in { "settle", "content", "finally" }
    /\ pc' = "content" /\ pc # "content" => pc = "settle"
    /\ pc \in LoadedPcs \cup { "settle" } => pc' \notin { "goto", "backoff" }
    /\ pc = "finally" /\ after = "exit"
           => pc' \in { "finally", "return", "main_raise" }

\* C17: a page is navigated to at most max_nav_retries = 3 times and at most
\* max_pages pages are opened per keyword; a further attempt follows only a
\* timeout of attempt 1 or 2, after one backoff sleep; a timeout of attempt
\* 3 leads to no backoff, bot check or extraction and ends the page loop;
\* a successful attempt is followed by the settle wait and no other attempt.
C17_NavRetryProtocol ==
    /\ [][NavStep]_vars
    /\ [](/\ attempt \in 1..max_nav_retries
          /\ pagesOpened <= max_pages
          /\ pc \in NavPcs => cards = << >> /\ items = << >> /\ botChecks = 0)

\* C17 witness: on the second page two attempts timed out and the third
\* ended the loop without a bot check or a card query.
C17_Witness ==
    /\ pc = "finally"
    /\ page_index = 2
    /\ attempt = max_nav_retries
    /\ after = "exit"
    /\ botChecks = 0
    /\ cards = << >>

\* ------------------------------------------------------------------ C18
\* The records of the current page that the sink holds.
OfThisPage == { i \in DOMAIN sink : sink[i].pageIndex = page_index }

\* C18: the bot check runs exactly once per page, after the navigation and
\* before any card is queried; before it nothing of the page is queried,
\* extracted, enriched or emitted, and after a match nothing at all is.
C18_BotCheckOncePerPage ==
    /\ botChecks \in 0..1
    /\ pc \in { "new_page", "goto", "backoff", "settle", "content" }
           => /\ botChecks = 0
              /\ cards = << >> /\ items = << >>
              /\ OfThisPage = { }
    /\ pc \in (LoadedPcs \ { "content" }) \cup { "next_href" }
           => botChecks = 1 /\ botAt = 0
    /\ botAt # 0
           => /\ pc \notin PageBlockPcs \cup { "next_href", "while" }
              /\ botAt = page_index
              /\ cards = << >> /\ items = << >>
              /\ OfThisPage = { }

\* C18 witness: the second page was checked once, matched a marker, and
\* the record of the first page is all the sink holds.
C18_Witness ==
    /\ pc = "finally"
    /\ botChecks = 1
    /\ botAt = 2
    /\ Len(sink) = 1
    /\ sink[1].pageIndex = 1

\* ------------------------------------------------------------------ C19
\* One step seen from the pagination.
AdvanceStep ==
    /\ (page_index' # page_index /\ pc \notin { "return", "main_for" })
           => /\ pc = "next_href"
              /\ page_index' = page_index + 1
              /\ search_url' = search_url + 1
              /\ cards # << >>
              /\ items # << >>
              /\ Len(sink) >= Len(items)
              /\ total_collected < max_items
              /\ after' = "loop"
    /\ (pagesOpened' # pagesOpened /\ pagesOpened > 0 /\ pc = "new_page")
           => page_index = pagesOpened + 1
    /\ (pc = "finally" /\ pc' = "while") => after = "loop"
    /\ (pc = "finally" /\ after = "exit" /\ pc' # "finally")
           => pc' \in { "return", "main_raise" }
    /\ (pc' = "finally" /\ pc # "finally" /\ after' = "loop")
           => pc = "next_href"

\* C19: page_index is incremented, and a further page navigated to, only
\* after a page on which cards were found, at least one record survived,
\* the total after emission stayed below max_items and the next control had
\* a non-empty destination; in every other case the page loop ends.
C19_AdvanceOnlyAfterProductivePage ==
    /\ [][AdvanceStep]_vars
    /\ [](/\ (pc = "finally" /\ after = "loop")
                 => /\ cards # << >> /\ items # << >>
                    /\ total_collected < max_items
                    /\ page_index = pagesOpened + 1
          /\ pc \in PageBlockPcs \ { "new_page" } => page_index = pagesOpened
          /\ pc = "new_page" => page_index = pagesOpened + 1)

\* C19 witness: the first page gave a record below the budget and had a next
\* link; the second page is being navigated to.
C19_Witness ==
    /\ pc = "goto"
    /\ page_index = 2
    /\ pagesOpened = 2
    /\ total_collected = 1
    /\ Len(sink) = 1

\* ------------------------------------------------------------------ C20
\* C20: the sink receives a keyword's records by increasing pageIndex and,
\* within a page, in card order; a record's pageIndex is the page it was
\* extracted from; no record of a page is emitted before the page's
\* enrichment is over, and every record of page p is emitted before page
\* p+1 is navigated to.
C20_EmissionOrder ==
    /\ \A i, j \in DOMAIN sink :
         i < j => \/ sink[i].pageIndex < sink[j].pageIndex
                  \/ /\ sink[i].pageIndex = sink[j].pageIndex
                     /\ sink[i].card < sink[j].card
    /\ \A i \in DOMAIN sink :
         /\ sink[i].pageIndex \in 1..MaxPagesBound
         /\ site[sink[i].pageIndex] # NotServed
         /\ sink[i].card \in 1..site[sink[i].pageIndex]
    /\ pc \in PageBlockPcs => search_url = page_index
    /\ pc \in PageBlockPcs \ { "push", "next_btn" } => OfThisPage = { }
    /\ pc \in PageBlockPcs \cup { "while" }
           => \A i \in DOMAIN sink : sink[i].pageIndex <= page_index
    /\ pc = "push"
           => /\ Cardinality(OfThisPage) = pi - 1
              /\ \A k \in 1..(pi - 1) :
                   sink[Len(sink) - (pi - 1) + k]
                       = [keyword |-> Keywords[kwIdx],
                          pageIndex |-> page_index,
                          card |-> items[k].card,
                          enriched |-> items[k].enriched]

\* C20 witness: an enriched record of page 1 and then a record of page 2
\* are in the sink.
C20_Witness ==
    /\ Len(sink) = 2
    /\ sink[1].pageIndex = 1
    /\ sink[1].enriched
    /\ sink[2].pageIndex = 2
    /\ pc = "push"

\* ------------------------------------------------------------------ C21
\* One step seen from the extraction loop.
ExtractStep ==
    /\ (pc = "extract" /\ ci' # ci)
           => /\ ci <= Len(cards)
              /\ ci' = ci + 1
              /\ cards' = cards
              /\ pc' = "extract"
              /\ sink' = sink
              /\ \/ items' = items
                 \/ items' = Append(items, [card |-> cards[ci],
                                            enriched |-> FALSE])
    /\ (pc = "extract" /\ ci' = ci) => items' = items /\ cards' = cards
    /\ (pc = "extract" /\ pc' # "extract")
           => /\ ci > Len(cards)
              /\ IF items = << >>
                   THEN pc' = "finally" /\ after' = "exit"
                   ELSE pc' \in { "enrich", "push" }

\* The records are some of the cards attempted so far, in card order.
AttemptedInOrder ==
    pc = "extract" =>
        /\ ci \in 1..(Len(cards) + 1)
        /\ Len(items) <= ci - 1
        /\ \A k \in DOMAIN items :
             \E c \in 1..(ci - 1) : items[k].card = cards[c]
        /\ \A k, l \in DOMAIN items :
             k < l => items[k].card < items[l].card

\* C21 (as the code has it): every card of the truncated list is attempted
\* once, in order; a card past its deadline or failing is skipped, not
\* retried, and raises nothing; the result is the subsequence of the cards
\* that parsed; the crawl goes on after the batch unless no card of the
\* page gave a record, in which case the page loop ends.
C21_SkippedCardsEndCrawlOnlyIfNoneParsed ==
    /\ [][ExtractStep]_vars
    /\ []AttemptedInOrder

\* C21 witness: of two cards the first was skipped and the second parsed.
C21_Witness ==
    /\ pc = "extract"
    /\ Len(cards) = 2
    /\ ci = 3
    /\ items = << [card |-> 2, enriched |-> FALSE] >>

\* C21 as stated: the result holds cards attempted so far, and skipped
\* cards never end the keyword's crawl: the page loop is not left after a
\* batch all of whose cards were skipped.
C21_SkippedCardsNeverEndCrawl ==
    /\ pc = "extract" => Len(items) <= ci - 1 /\ ci <= Len(cards) + 1
    /\ ~(/\ pc = "finally"
         /\ after = "exit"
         /\ cards # << >>
         /\ ci > Len(cards)
         /\ items = << >>)

\* ------------------------------------------------------------------ C22
RunEnded == pc \in { "done", "aborted" }

\* One step seen from the page loop: an iteration ends the loop or leaves
\* page_index one higher, and a page is opened only below the page limit.
IterationStep ==
    /\ (pc = "finally" /\ pc' # "finally")
           => \/ pc' \in { "return", "main_raise" }
              \/ pc' = "while" /\ page_index = pagesOpened + 1
    /\ (pc = "while" /\ pc' = "new_page") => pagesOpened < max_pages
    /\ (pc = "while" /\ pc' # "while") => pc' \in { "new_page", "return" }

\* C22: every keyword's crawl returns (or raises) after at most max_pages
\* loop iterations, each of which ends the loop or increases page_index by
\* one, and the run ends with the shared browser context closed, after the
\* last keyword when it ends normally.
C22_RunTerminatesContextClosed ==
    /\ <>(RunEnded /\ ~contextOpen)
    /\ [](pc = "while" => <>(pc \in { "return", "main_raise" }))
    /\ [](RunEnded => ~contextOpen /\ openSearch = 0 /\ openDetail = 0)
    /\ [](pc = "done" => kwIdx = NumKeywords + 1 /\ Len(started) = NumKeywords)
    /\ [](pagesOpened <= max_pages)
    /\ [][IterationStep]_vars

\* C22 witness: the run ended normally after the last keyword's crawl.
C22_Witness ==
    /\ pc = "done"
    /\ ~contextOpen
    /\ kwIdx = NumKeywords + 1
    /\ started = [i \in 1..NumKeywords |-> i]

====
